---- MODULE Spec2Model ----
(***************************************************************************)
(* Model of semantic_kernel/utils/settings.py (the .env credential         *)
(* resolvers) and semantic_kernel/core_skills/wait_skill.py (WaitSkill).   *)
(*                                                                         *)
(* Encoding of Python values:                                              *)
(*   Optional[str]  None is <<>>, the string s is <<s>>                    *)
(*   dict           a function whose DOMAIN is the set of keys present     *)
(*   an outcome     [exc, msg, value]: exc = "" for a normal return        *)
(***************************************************************************)
EXTENDS Integers, Sequences, FiniteSets, TLC

VARIABLES
    envFile,    \* the dict the .env file currently parses to
    last,       \* the most recent settings call: [op, flag, result]
    reads,      \* consecutive identical calls since .env last changed
    text,       \* seconds_text of the single wait() call under study
    callPc,     \* where that call is: "call", "sleep", "done", "raised"
    outcome,    \* what that call raised, if it raised
    slept,      \* <<seconds>> once it has called asyncio.sleep(seconds)
    now,        \* the event loop's clock
    pc,         \* per task: "new", "sleeping", "done", "raised"
    delay,      \* per task: the seconds it passed to asyncio.sleep
    since,      \* per task: the clock when it suspended
    running,    \* the task occupying the loop's thread, 0 when it is free
    work        \* whether another coroutine of the loop has taken a step

settingsVars == <<envFile, last, reads>>
callVars == <<text, callPc, outcome, slept>>
loopVars == <<now, pc, delay, since, running, work>>
vars == <<envFile, last, reads, text, callPc, outcome, slept,
          now, pc, delay, since, running, work>>

(* ------------------------------------------------------------------ *)
(* Bounds                                                              *)
(* ------------------------------------------------------------------ *)
\* number of distinct non-empty strings a .env value may take
MaxVal == 1
\* consecutive calls on an unchanged .env file that are counted
MaxReads == 2
\* longest seconds_text
MaxLen == 3
\* concurrent wait() tasks on one event loop
NumTasks == 2
\* last tick of the loop's clock
MaxTime == 2
\* longest sleep a task of the loop model asks for
MaxDelay == 2
\* longest seconds_text given to a task of the loop model
MaxTaskLen == 2

StrPool == <<"v1", "v2", "v3", "v4">>
Strs == {""} \cup {StrPool[i] : i \in 1..MaxVal}

(* ------------------------------------------------------------------ *)
(* Python values                                                       *)
(* ------------------------------------------------------------------ *)
None == <<>>
Str(s) == <<s>>
OptStrs == {None} \cup {Str(s) : s \in Strs}

\* a normal return of `value`
Return(value) == [exc |-> "", msg |-> "", value |-> value]
\* an exception of type `exc` carrying `msg`
Raise(exc, msg) == [exc |-> exc, msg |-> msg, value |-> <<>>]

\* dict.get(key, default)
Get(config, key, default) ==
    IF key \in DOMAIN config THEN config[key] ELSE default

\* x or y  (Python truthiness of an Optional[str]: None and "" are falsy)
Or(x, y) == IF x # None /\ x # Str("") THEN x ELSE y

(* ------------------------------------------------------------------ *)
(* settings.py                                                         *)
(* ------------------------------------------------------------------ *)
Keys == {"OPENAI_API_KEY", "OPENAI_ORG_ID", "AZURE_OPENAI_DEPLOYMENT_NAME",
         "AZURE_OPENAI_API_KEY", "AZURE_OPENAI_ENDPOINT"}

\* dotenv_values(".env"): the file is read anew on every call.  In the dict
\* a `KEY=value` line gives a string, a bare `KEY` line gives None, and a
\* key with no line is not in the dict
dotenv_values == envFile

\* openai_settings with the organization id asserted like the API key
openai_settings_org_required(config) ==
    LET api_key == Get(config, "OPENAI_API_KEY", None)
        org_id == Get(config, "OPENAI_ORG_ID", None)
    IN  IF api_key = None
        THEN Raise("AssertionError", "OpenAI API key not found in .env file")
        ELSE IF org_id = None
        THEN Raise("AssertionError", "OpenAI org ID not found in .env file")
        ELSE Return(<<api_key, org_id>>)

\* body of openai_settings_from_dot_env once config is loaded
openai_settings(config) ==
    LET api_key == Get(config, "OPENAI_API_KEY", None)
        org_id == Get(config, "OPENAI_ORG_ID", None)
    IN  IF api_key = None
        THEN Raise("AssertionError", "OpenAI API key not found in .env file")
        ELSE Return(<<api_key, org_id>>)

\* azure_openai_settings returning `deployment` without the `or ""`
azure_openai_settings_no_default(config, include_deployment) ==
    LET deployment == Get(config, "AZURE_OPENAI_DEPLOYMENT_NAME", None)
        api_key == Get(config, "AZURE_OPENAI_API_KEY", None)
        endpoint == Get(config, "AZURE_OPENAI_ENDPOINT", None)
    IN  IF include_deployment /\ deployment = None
        THEN Raise("AssertionError",
                   "Azure OpenAI deployment name not found in .env file")
        ELSE IF api_key = None
        THEN Raise("AssertionError",
                   "Azure OpenAI API key not found in .env file")
        ELSE IF endpoint = None
        THEN Raise("AssertionError",
                   "Azure OpenAI endpoint not found in .env file")
        ELSE Return(<<deployment, api_key, endpoint>>)

\* body of azure_openai_settings_from_dot_env once config is loaded
azure_openai_settings(config, include_deployment) ==
    LET deployment == Get(config, "AZURE_OPENAI_DEPLOYMENT_NAME", None)
        api_key == Get(config, "AZURE_OPENAI_API_KEY", None)
        endpoint == Get(config, "AZURE_OPENAI_ENDPOINT", None)
    IN  IF include_deployment /\ deployment = None
        THEN Raise("AssertionError",
                   "Azure OpenAI deployment name not found in .env file")
        ELSE IF api_key = None
        THEN Raise("AssertionError",
                   "Azure OpenAI API key not found in .env file")
        ELSE IF endpoint = None
        THEN Raise("AssertionError",
                   "Azure OpenAI endpoint not found in .env file")
        ELSE Return(<<Or(deployment, Str("")), api_key, endpoint>>)

\* reads' after a call of (op, flag): consecutive identical calls on an
\* unchanged file are counted up to MaxReads
Counted(op, flag) ==
    IF reads >= 1 /\ last.op = op /\ last.flag = flag
    THEN (IF reads < MaxReads THEN reads + 1 ELSE reads)
    ELSE 1

NoCall == [op |-> "none", flag |-> FALSE, result |-> Return(<<>>)]

\* a caller invokes openai_settings_from_dot_env()
openai_settings_from_dot_env ==
    /\ last' = [op |-> "openai", flag |-> FALSE,
                result |-> openai_settings(dotenv_values)]
    /\ reads' = Counted("openai", FALSE)
    /\ UNCHANGED <<envFile, callVars, loopVars>>

\* azure_openai_settings_from_dot_env memoized on its argument
azure_openai_settings_memoized(include_deployment) ==
    /\ last' = IF last.op = "azure" /\ last.flag = include_deployment
               THEN last
               ELSE [op |-> "azure", flag |-> include_deployment,
                     result |-> azure_openai_settings(dotenv_values,
                                                      include_deployment)]
    /\ reads' = Counted("azure", include_deployment)
    /\ UNCHANGED <<envFile, callVars, loopVars>>

\* a caller invokes azure_openai_settings_from_dot_env(include_deployment)
azure_openai_settings_from_dot_env(include_deployment) ==
    /\ last' = [op |-> "azure", flag |-> include_deployment,
                result |-> azure_openai_settings(dotenv_values,
                                                 include_deployment)]
    /\ reads' = Counted("azure", include_deployment)
    /\ UNCHANGED <<envFile, callVars, loopVars>>

\* the environment edits a line of .env
SetKey(k, v) ==
    /\ Get(envFile, k, Str("?")) # v
    /\ envFile' = [x \in DOMAIN envFile \cup {k} |->
                      IF x = k THEN v ELSE envFile[x]]
    /\ reads' = 0
    /\ UNCHANGED <<last, callVars, loopVars>>

\* the environment deletes a line of .env
DelKey(k) ==
    /\ k \in DOMAIN envFile
    /\ envFile' = [x \in DOMAIN envFile \ {k} |-> envFile[x]]
    /\ reads' = 0
    /\ UNCHANGED <<last, callVars, loopVars>>

SettingsInit ==
    /\ envFile = <<>>
    /\ last = NoCall
    /\ reads = 0

(* ------------------------------------------------------------------ *)
(* wait_skill.py                                                       *)
(* ------------------------------------------------------------------ *)
\* seconds_text is a sequence of characters over this alphabet
Chars == {"-", "0", "1", "2", "a", "n"}
Digits == {"0", "1", "2"}
Texts == UNION {[1..n -> Chars] : n \in 0..MaxLen}
TaskTexts == {s \in Texts : Len(s) <= MaxTaskLen}

\* Python floats: a number (integers stand for the floats; -0.0 is 0) or NaN
Num(n) == [kind |-> "num", v |-> n]
NaN == [kind |-> "nan", v |-> 0]

DigitVal(c) == CASE c = "0" -> 0 [] c = "1" -> 1 [] c = "2" -> 2

RECURSIVE Decimal(_)
Decimal(s) ==
    IF s = <<>> THEN 0
    ELSE 10 * Decimal(SubSeq(s, 1, Len(s) - 1)) + DigitVal(s[Len(s)])

\* float(s) on this alphabet: an optional sign, then digits or "nan";
\* anything else raises ValueError
float(s) ==
    LET neg == Len(s) >= 1 /\ s[1] = "-"
        body == IF neg THEN Tail(s) ELSE s
    IN  IF Len(body) >= 1 /\ \A i \in 1..Len(body) : body[i] \in Digits
        THEN Return(Num(IF neg THEN 0 - Decimal(body) ELSE Decimal(body)))
        ELSE IF body = <<"n", "a", "n">>
        THEN Return(NaN)
        ELSE Raise("ValueError", "could not convert string to float")

\* a > b on floats: every comparison with NaN is false
Gt(a, b) == a.kind = "num" /\ b.kind = "num" /\ a.v > b.v

\* max(a, b): the first argument unless the second is greater
max(a, b) == IF Gt(b, a) THEN b ELSE a

\* seconds_of without the except clause: float's own error gets out
seconds_of_uncaught(seconds_text) ==
    LET parsed == float(seconds_text)
    IN  IF parsed.exc = "ValueError"
        THEN parsed
        ELSE Return(max(parsed.value, Num(0)))

\* seconds_of without the clamp
seconds_of_unclamped(seconds_text) ==
    LET parsed == float(seconds_text)
    IN  IF parsed.exc = "ValueError"
        THEN Raise("ValueError", "seconds text must be a number")
        ELSE Return(parsed.value)

\* the try/except of WaitSkill.wait: the value of `seconds`, or the raise
seconds_of(seconds_text) ==
    LET parsed == float(seconds_text)
    IN  IF parsed.exc = "ValueError"
        THEN Raise("ValueError", "seconds text must be a number")
        ELSE Return(max(parsed.value, Num(0)))

(* ---- one call of wait(seconds_text), step by step ---- *)

\* wait() runs from its entry to `await asyncio.sleep(seconds)`
wait ==
    /\ callPc = "call"
    /\ LET r == seconds_of(text)
       IN  IF r.exc # ""
           THEN /\ callPc' = "raised"
                /\ outcome' = r
                /\ slept' = slept
           ELSE /\ callPc' = "sleep"
                /\ slept' = <<r.value>>
                /\ outcome' = outcome
    /\ UNCHANGED <<text, settingsVars, loopVars>>

\* asyncio.sleep returns.  On a NaN delay the interpreter decides: it
\* returns at once (before 3.13) or raises ValueError (3.13 and later)
sleep_returns ==
    /\ callPc = "sleep"
    /\ \/ callPc' = "done" /\ outcome' = outcome
       \/ /\ slept[1] = NaN
          /\ callPc' = "raised"
          /\ outcome' = Raise("ValueError", "Invalid delay: NaN (not a number)")
    /\ UNCHANGED <<text, slept, settingsVars, loopVars>>

CallInit ==
    /\ text \in Texts
    /\ callPc = "call"
    /\ outcome = Return(<<>>)
    /\ slept = <<>>

CallIdle ==
    /\ text = <<>>
    /\ callPc = "call"
    /\ outcome = Return(<<>>)
    /\ slept = <<>>

(* ---- several wait() tasks on one asyncio event loop ---- *)
Tasks == 1..NumTasks

\* a blocking time.sleep(seconds) in task t: the task keeps the thread
blocking_sleep(t, seconds) ==
    /\ pc' = [pc EXCEPT ![t] = "sleeping"]
    /\ delay' = [delay EXCEPT ![t] = seconds]
    /\ since' = [since EXCEPT ![t] = now]
    /\ running' = t

\* `await asyncio.sleep(seconds)` in task t: a timer is set and the task
\* yields the thread to the loop
asyncio_sleep(t, seconds) ==
    /\ pc' = [pc EXCEPT ![t] = "sleeping"]
    /\ delay' = [delay EXCEPT ![t] = seconds]
    /\ since' = [since EXCEPT ![t] = now]
    /\ running' = 0

\* the loop runs task t, a call of wait(s), up to its await
wait_task(t, s) ==
    /\ running = 0
    /\ pc[t] = "new"
    /\ LET r == seconds_of(s)
       IN  IF r.exc # ""
           THEN /\ pc' = [pc EXCEPT ![t] = "raised"]
                /\ UNCHANGED <<delay, since, running>>
           ELSE \/ /\ r.value.v <= MaxDelay
                   /\ asyncio_sleep(t, r.value)
                \* asyncio.sleep(NaN) raises ValueError on Python 3.13+
                \/ /\ r.value = NaN
                   /\ pc' = [pc EXCEPT ![t] = "raised"]
                   /\ UNCHANGED <<delay, since, running>>
    /\ UNCHANGED <<now, work, settingsVars, callVars>>

\* the timer of task t is due (a NaN deadline compares as due)
Due(t) == delay[t] = NaN \/ now >= since[t] + delay[t].v

\* the loop resumes task t after its timer fired; wait() returns
resume(t) ==
    /\ running = 0
    /\ pc[t] = "sleeping"
    /\ Due(t)
    /\ pc' = [pc EXCEPT ![t] = "done"]
    /\ UNCHANGED <<now, delay, since, running, work, settingsVars, callVars>>

\* another coroutine of the same loop takes a step
other_task ==
    /\ running = 0
    /\ work' = TRUE
    /\ UNCHANGED <<now, pc, delay, since, running,
                   settingsVars, callVars>>

\* time passes
Tick ==
    /\ now < MaxTime
    /\ now' = now + 1
    /\ UNCHANGED <<pc, delay, since, running, work,
                   settingsVars, callVars>>

LoopInit ==
    /\ now = 0
    /\ running = 0
    /\ work = FALSE
    /\ pc = [t \in Tasks |-> "new"]
    /\ delay = [t \in Tasks |-> Num(0)]
    /\ since = [t \in Tasks |-> 0]

(* ------------------------------------------------------------------ *)
(* Specifications                                                      *)
(* ------------------------------------------------------------------ *)
SettingsNext ==
    \/ openai_settings_from_dot_env
    \/ \E f \in BOOLEAN : azure_openai_settings_from_dot_env(f)
    \/ \E k \in Keys, v \in OptStrs : SetKey(k, v)
    \/ \E k \in Keys : DelKey(k)

WaitNext ==
    \/ wait
    \/ sleep_returns

LoopNext ==
    \/ \E t \in Tasks, s \in TaskTexts : wait_task(t, s)
    \/ \E t \in Tasks : resume(t)
    \/ other_task
    \/ Tick

SettingsStart == SettingsInit /\ CallIdle /\ LoopInit
WaitStart == SettingsInit /\ CallInit /\ LoopInit
LoopStart == LoopInit /\ SettingsInit /\ CallIdle

\* the settings functions called against a changing .env file
SpecSettings == SettingsStart /\ [][SettingsNext]_vars

\* one call of wait() on every seconds_text
SpecWait == WaitStart /\ [][WaitNext]_vars

\* concurrent wait() tasks on one event loop
SpecLoop == LoopStart /\ [][LoopNext]_vars

Spec == SpecSettings

(* ------------------------------------------------------------------ *)
(* Claims about settings.py (checked under SpecSettings)               *)
(* ------------------------------------------------------------------ *)
\* the value .env gives key k, None when it gives none
Value(k) == Get(envFile, k, None)
Present(k) == Value(k) # None
NonEmpty(k) == Present(k) /\ Value(k) # Str("")

\* the last call was of `op` and .env has not changed since
Fresh(op) == reads >= 1 /\ last.op = op
Succeeded == last.result.exc = ""
\* the missing-credential error
MissingCredential == last.result.exc = "AssertionError"

\* C1: openai_settings_from_dot_env fails with the missing-credential error
\* when OPENAI_API_KEY is absent, when it is the empty string and when .env
\* is empty, and returns nothing in these cases.
C1_FailsWhenAbsentOrEmpty ==
    (/\ Fresh("openai")
     /\ \/ ~Present("OPENAI_API_KEY")
        \/ Value("OPENAI_API_KEY") = Str("")
        \/ DOMAIN envFile = {})
    => (MissingCredential /\ last.result.value = <<>>)

\* C2: azure_openai_settings_from_dot_env(True) succeeds exactly when the
\* deployment name, the API key and the endpoint are all present and
\* non-empty; it then returns those three values, and otherwise fails with
\* the missing-credential error.
C2_SucceedsIffAllNonEmpty ==
    (Fresh("azure") /\ last.flag)
    => /\ Succeeded <=> (/\ NonEmpty("AZURE_OPENAI_DEPLOYMENT_NAME")
                         /\ NonEmpty("AZURE_OPENAI_API_KEY")
                         /\ NonEmpty("AZURE_OPENAI_ENDPOINT"))
       /\ Succeeded => last.result.value =
                           <<Value("AZURE_OPENAI_DEPLOYMENT_NAME"),
                             Value("AZURE_OPENAI_API_KEY"),
                             Value("AZURE_OPENAI_ENDPOINT")>>
       /\ ~Succeeded => MissingCredential

\* C3: for either flag the Azure resolution fails with the
\* missing-credential error when the API key or the endpoint is absent or
\* empty, so a successful one returns a non-empty api_key and endpoint.
C3_KeyAndEndpointNonEmpty ==
    Fresh("azure")
    => /\ (~NonEmpty("AZURE_OPENAI_API_KEY")
           \/ ~NonEmpty("AZURE_OPENAI_ENDPOINT")) => MissingCredential
       /\ Succeeded => /\ last.result.value[2] \notin {None, Str("")}
                       /\ last.result.value[3] \notin {None, Str("")}

\* C4: azure_openai_settings_from_dot_env(False) with no deployment name
\* and with the API key and the endpoint present succeeds and returns
\* deployment_name = ""; the deployment_name of every successful Azure
\* resolution is a string, never None, for either flag.
C4_DeploymentDefaultsToEmpty ==
    Fresh("azure")
    => /\ (/\ ~last.flag
           /\ ~Present("AZURE_OPENAI_DEPLOYMENT_NAME")
           /\ Present("AZURE_OPENAI_API_KEY")
           /\ Present("AZURE_OPENAI_ENDPOINT"))
          => (Succeeded /\ last.result.value[1] = Str(""))
       /\ Succeeded => /\ last.result.value[1] # None
                       /\ last.result.value[1] \in {Str(x) : x \in Strs}

C4_Witness ==
    /\ Fresh("azure") /\ ~last.flag /\ Succeeded
    /\ ~Present("AZURE_OPENAI_DEPLOYMENT_NAME")
    /\ NonEmpty("AZURE_OPENAI_API_KEY")
    /\ last.result.value[1] = Str("")

\* C5: with a non-empty OPENAI_API_KEY openai_settings_from_dot_env
\* succeeds and returns exactly that key and exactly the OPENAI_ORG_ID
\* value, None when it is not set; OPENAI_ORG_ID never causes a failure.
C5_ReturnsKeyAndOrg ==
    (Fresh("openai") /\ NonEmpty("OPENAI_API_KEY"))
    => /\ Succeeded
       /\ last.result.value[1] = Value("OPENAI_API_KEY")
       /\ last.result.value[2] =
              (IF "OPENAI_ORG_ID" \in DOMAIN envFile
               THEN envFile["OPENAI_ORG_ID"] ELSE None)

C5_Witness ==
    /\ Fresh("openai") /\ Succeeded
    /\ NonEmpty("OPENAI_API_KEY")
    /\ "OPENAI_ORG_ID" \notin DOMAIN envFile
    /\ last.result.value = <<Str("v1"), None>>

\* what a call of (op, flag) gives on the dict `config`
Resolve(op, flag, config) ==
    IF op = "openai" THEN openai_settings(config)
    ELSE azure_openai_settings(config, flag)

\* C8: the outcome of a settings call depends only on .env as it is at the
\* call and on the flag: as long as .env is unchanged since the last call,
\* that call's outcome is the one .env determines now, whether it was the
\* first call since a change or a repeated one, never one kept from before.
C8_OutcomeFromCurrentSource ==
    (reads >= 1 /\ last.op # "none")
    => last.result = Resolve(last.op, last.flag, envFile)

C8_Witness ==
    /\ reads = MaxReads /\ last.op = "azure" /\ last.flag /\ Succeeded
    /\ last.result.value[2] = Str("v1")

\* the rules of the Azure resolution as the specification words them
RuleA == last.flag => NonEmpty("AZURE_OPENAI_DEPLOYMENT_NAME")
RuleB == NonEmpty("AZURE_OPENAI_API_KEY")
RuleC == NonEmpty("AZURE_OPENAI_ENDPOINT")
FirstViolatedMessage ==
    IF ~RuleA THEN "Azure OpenAI deployment name not found in .env file"
    ELSE IF ~RuleB THEN "Azure OpenAI API key not found in .env file"
    ELSE "Azure OpenAI endpoint not found in .env file"

\* C9: when several rules of the Azure resolution are violated at once,
\* the failure reported is that of the first violated rule in the order
\* deployment name (when required), API key, endpoint.
C9_FirstViolatedRuleReported ==
    (/\ Fresh("azure")
     /\ Cardinality({r \in {"a", "b", "c"} :
                        \/ r = "a" /\ ~RuleA
                        \/ r = "b" /\ ~RuleB
                        \/ r = "c" /\ ~RuleC}) >= 2)
    => (MissingCredential /\ last.result.msg = FirstViolatedMessage)

(* ------------------------------------------------------------------ *)
(* Claims about WaitSkill.wait (checked under SpecWait)                *)
(* ------------------------------------------------------------------ *)
\* the call has left the try block
Entered == callPc # "call"
\* seconds_text is numeric: float() gives a number, not NaN and no error
Numeric == float(text).exc = "" /\ float(text).value.kind = "num"
Unparsable == float(text).exc # ""

\* C6: on a seconds_text that float() cannot parse, wait raises the
\* invalid-argument error with the message "seconds text must be a
\* number", and it never reaches asyncio.sleep.
C6_NonNumericRaisesBeforeSleep ==
    Unparsable
    => /\ callPc \in {"call", "raised"}
       /\ slept = <<>>
       /\ Entered => outcome = Raise("ValueError",
                                     "seconds text must be a number")

C6_Witness ==
    /\ text = <<"a">>
    /\ callPc = "raised"
    /\ outcome.msg = "seconds text must be a number"

C10_SuspendedWaitDoesNotBlock ==
    /\ [](\A t \in Tasks : pc[t] = "sleeping"
            => /\ running # t
               /\ \A u \in Tasks : pc[u] = "new"
                     => ENABLED (\E s \in TaskTexts : wait_task(u, s))
               /\ ENABLED other_task)
    /\ [][\A t \in Tasks :
            (pc[t] = "sleeping" /\ pc'[t] = "done" /\ delay[t].kind = "num")
            => now' - since[t] >= delay[t].v]_vars

\* a shorter wait started later has resumed while a longer wait started
\* earlier is still suspended and not yet due, and another coroutine has
\* run meanwhile
C10_Witness ==
    \E t, u \in Tasks :
        /\ pc[t] = "sleeping" /\ pc[u] = "done"
        /\ since[t] < since[u]
        /\ delay[u].v < delay[t].v
        /\ now < since[t] + delay[t].v
        /\ work
====
